---- MODULE Spec2Model ----
(***************************************************************************)
(* Timesheet lifecycle and weekly submission of TimeSheets-Backend.        *)
(*                                                                         *)
(* The store is the timesheets table.  Every HTTP request is a process:    *)
(* it reads the table, validates in memory, and writes back later, so two  *)
(* requests interleave between a read and the write that follows it.  A    *)
(* `with transaction.atomic()` block whose statements all belong to one    *)
(* request commits in one step.  Hours are counted in hundredths (the      *)
(* DecimalField has two decimal places), dates in days, weekday = d % 7    *)
(* with 0 = Monday.                                                        *)
(***************************************************************************)
EXTENDS Integers, Sequences, FiniteSets, TLC

VARIABLES store, nextId, clock, employees, projects, pc, req, served, last

vars == <<store, nextId, clock, employees, projects, pc, req, served, last>>

---------------------------------------------------------------------------
(* Bounds of the model *)

MaxId == 3
MaxSeed == 2
MaxRequests == 3
NumWorkers == 2
\* requests accepted in a run that serves them one at a time
MaxSeqRequests == 2

Ids == 1..MaxId
Workers == 1..NumWorkers

---------------------------------------------------------------------------
(* Program constants *)

MinHoursLimit == 10
MaxHoursLimit == 2400
DayHoursCap == 2400
WeekLastDay == 6
Monday == 0
Today == 9

Employees == {"E1", "E2"}
Admin == "admin"
Users == Employees \cup {Admin}
Projects == {"P1", "P2"}

\* request.user.is_staff
IsStaff(u) == u = Admin

\* request.user.employee: the admin account has no employee record
HasEmployee(u) == u \in Employees

\* Project.get_activity_types(): P1 declares its activities, P2 declares none
ActivityTypes(p) == IF p = "P1" THEN {"dev", "test"} ELSE {}

---------------------------------------------------------------------------
(* Records *)

Keep == "keep"
KeepNum == -1

Entry(e, p, a, d, h, desc, st, at) ==
  [employee |-> e, project |-> p, activity_type |-> a, date |-> d,
   hours_worked |-> h, description |-> desc, status |-> st, submitted_at |-> at]

\* the JSON body of a create or of a partial update
Data(e, p, a, d, h, desc, st) ==
  [employee |-> e, project |-> p, activity_type |-> a, date |-> d,
   hours_worked |-> h, description |-> desc, status |-> st]

NoData == Data(Keep, Keep, Keep, KeepNum, KeepNum, Keep, Keep)

NoReq ==
  [kind |-> "none", user |-> "none", id |-> 0, ids |-> <<>>, week |-> 0,
   force |-> FALSE, action |-> "none", data |-> NoData, snap |-> <<>>]

\* what a request answers: the endpoint, the outcome, the entry id of the URL, the
\* key of the body, and the counts of a batch summary
Response(k, c, i, key, n, h) ==
  [kind |-> k, code |-> c, id |-> i, key |-> key, count |-> n, hours |-> h]

\* the response together with the request it answers; direct marks a request
\* that was answered in its first step, before it held or wrote anything
Answer(q, response) ==
  [kind |-> response.kind, code |-> response.code, id |-> response.id,
   key |-> response.key, count |-> response.count, hours |-> response.hours,
   user |-> q.user, ids |-> q.ids, week |-> q.week, force |-> q.force,
   data |-> q.data, direct |-> FALSE]

NoResponse == Answer(NoReq, Response("none", "none", 0, <<>>, 0, 0))

Key4(e) == <<e.employee, e.project, e.date, e.activity_type>>

Key5(e) == <<e.employee, e.project, e.date, e.activity_type, e.status>>

\* a model instance as a request holds it: the row plus the related employee and
\* project objects fetched with it (select_related), which are not refreshed later
Instance(i, e, act, pst) ==
  [id |-> i, employee |-> e.employee, project |-> e.project,
   activity_type |-> e.activity_type, date |-> e.date,
   hours_worked |-> e.hours_worked, description |-> e.description,
   status |-> e.status, submitted_at |-> e.submitted_at,
   emp_active |-> act, proj_status |-> pst]

Row(inst) ==
  Entry(inst.employee, inst.project, inst.activity_type, inst.date,
        inst.hours_worked, inst.description, inst.status, inst.submitted_at)

Put(db, i, e) == [j \in (DOMAIN db) \cup {i} |-> IF j = i THEN e ELSE db[j]]

Remove(db, S) == [j \in (DOMAIN db) \ S |-> db[j]]

SeqToSet(s) == {s[k] : k \in DOMAIN s}

SnapIds(list) == {list[k].id : k \in DOMAIN list}

---------------------------------------------------------------------------
(* Store reads *)

\* variant for C16: the related employee and project are taken to be active
LoadAsActive(db, i) == Instance(i, db[i], TRUE, "active")

\* Timesheet.objects.select_related('employee', 'project').get(pk=i)
Load(db, i) ==
  Instance(i, db[i], employees[db[i].employee], projects[db[i].project])

\* Meta.ordering = ['-date', '-created_at']: later dates first, then later rows
First(db, S) ==
  CHOOSE i \in S : \A j \in S :
    \/ db[i].date > db[j].date
    \/ db[i].date = db[j].date /\ i >= j

RECURSIVE Ordered(_, _)
Ordered(db, S) ==
  IF S = {} THEN <<>>
  ELSE LET i == First(db, S) IN <<Load(db, i)>> \o Ordered(db, S \ {i})

RECURSIVE SumHours(_, _)
SumHours(f, S) ==
  IF S = {} THEN 0
  ELSE LET i == CHOOSE x \in S : TRUE IN f[i].hours_worked + SumHours(f, S \ {i})

RECURSIVE SumSeqHours(_)
SumSeqHours(list) ==
  IF list = <<>> THEN 0 ELSE Head(list).hours_worked + SumSeqHours(Tail(list))

---------------------------------------------------------------------------
(* Timesheet model: field validators, clean(), validate_unique(), save() *)

\* variant for C29: the minimum compared as the decimal 0.10
HoursFieldDecimalMin(h) == ~(h < MinHoursLimit) /\ ~(h > MaxHoursLimit)

\* variant for C15: MaxValueValidator left out
HoursFieldNoMax(h) == ~(h <= MinHoursLimit)

\* MinValueValidator(0.1), MaxValueValidator(24.0).  The limits are floats and the
\* value a Decimal; Python compares them exactly, and the float 0.1 is greater than
\* the decimal 0.10, so 0.10 itself is below the minimum.
HoursFieldOK(h) == ~(h <= MinHoursLimit) /\ ~(h > MaxHoursLimit)

\* variant for C24: the activity type is not compared with the project's list
CleanAnyActivity(inst) ==
  IF inst.date > Today THEN "FutureDate"
  ELSE IF ~inst.emp_active THEN "InactiveEmployee"
  ELSE IF inst.proj_status # "active" THEN "InactiveProject"
  ELSE "ok"

\* Timesheet.clean(): the first ValidationError raised
Clean(inst) ==
  IF inst.date > Today THEN "FutureDate"
  ELSE IF ActivityTypes(inst.project) # {}
          /\ inst.activity_type \notin ActivityTypes(inst.project)
       THEN "InvalidActivityType"
  ELSE IF ~inst.emp_active THEN "InactiveEmployee"
  ELSE IF inst.proj_status # "active" THEN "InactiveProject"
  ELSE "ok"

\* Meta.unique_together of the model class, which validate_unique() checks
\* against the table (excluding the instance's own row)
UniqueTogetherOK(db, e, pk) ==
  \A j \in (DOMAIN db) \ {pk} : Key4(db[j]) # Key4(e)

\* variant for C8: a table without the unique constraint
DbConstraintAbsent(db, e, pk) == TRUE

\* the unique constraint of the table, as migration 0002 altered it
DbConstraintOK(db, e, pk) ==
  \A j \in (DOMAIN db) \ {pk} : Key5(db[j]) # Key5(e)

\* full_clean(): clean_fields(), clean(), validate_unique()
FullClean(db, inst) ==
  IF ~HoursFieldOK(inst.hours_worked) THEN "HoursOutOfRange"
  ELSE IF Clean(inst) # "ok" THEN Clean(inst)
  ELSE IF ~UniqueTogetherOK(db, Row(inst), inst.id) THEN "DuplicateEntry"
  ELSE "ok"

\* super().save(): UPDATE by primary key, INSERT when no row was updated
WriteRow(db, inst) ==
  IF DbConstraintOK(db, Row(inst), inst.id)
  THEN [ok |-> TRUE, err |-> "ok", db |-> Put(db, inst.id, Row(inst))]
  ELSE [ok |-> FALSE, err |-> "IntegrityError", db |-> db]

\* Timesheet.save() run against one view of the table
Save(db, inst) ==
  IF FullClean(db, inst) # "ok"
  THEN [ok |-> FALSE, err |-> FullClean(db, inst), db |-> db]
  ELSE WriteRow(db, inst)

\* Timesheet.submit(): "This will set status and submitted_at"
Submit(inst, now) ==
  [inst EXCEPT !.status = "submitted", !.submitted_at = now]

---------------------------------------------------------------------------
(* timesheets/utils.py: week window, week drafts, week validator, totals *)

\* get_week_start_end_dates(d): the Monday of d's week and the Sunday after it
GetWeekStartEndDates(d) == <<d - (d % 7), d - (d % 7) + WeekLastDay>>

\* get_week_drafts(employee, week_start_date)
GetWeekDrafts(db, emp, weekStart) ==
  LET w == GetWeekStartEndDates(weekStart) IN
  {i \in DOMAIN db : /\ db[i].employee = emp
                     /\ db[i].status = "draft"
                     /\ db[i].date >= w[1]
                     /\ db[i].date <= w[2]}

\* Entry Validator, target status Submitted: the first rule the entry breaks
EntryError(db, list, k) ==
  LET inst == list[k] IN
  IF ~inst.emp_active THEN "InactiveEmployee"
  ELSE IF inst.proj_status # "active" THEN "InactiveProject"
  ELSE IF ~(inst.hours_worked > 0 /\ inst.hours_worked <= DayHoursCap)
       THEN "HoursOutOfRange"
  ELSE IF ActivityTypes(inst.project) # {}
          /\ inst.activity_type \notin ActivityTypes(inst.project)
       THEN "InvalidActivityType"
  ELSE IF inst.date > Today THEN "FutureDate"
  ELSE IF \/ \E j \in (DOMAIN db) \ {inst.id} :
                Key4(db[j]) = Key4(inst) /\ db[j].status = "submitted"
          \/ \E m \in (DOMAIN list) \ {k} : Key4(list[m]) = Key4(inst)
       THEN "DuplicateEntry"
  ELSE "ok"

\* hours of one employee on one day: the entries of the set plus the employee's
\* other entries already Submitted on that day
DayTotal(db, list, emp, day) ==
  LET mine == {k \in DOMAIN list : list[k].employee = emp /\ list[k].date = day}
      others == {j \in (DOMAIN db) \ SnapIds(list) :
                   /\ db[j].employee = emp
                   /\ db[j].date = day
                   /\ db[j].status = "submitted"}
  IN SumHours(list, mine) + SumHours(db, others)

\* validate_week_timesheets(list): blocking errors and advisory warnings
ValidateWeekTimesheets(db, list) ==
  LET entryErrors == {k \in DOMAIN list : EntryError(db, list, k) # "ok"}
      dayErrors == {k \in DOMAIN list :
                      DayTotal(db, list, list[k].employee, list[k].date) > DayHoursCap}
      warnings == {k \in DOMAIN list : list[k].description = ""}
  IN [is_valid |-> entryErrors = {} /\ dayErrors = {},
      has_warnings |-> warnings # {},
      first_error |-> IF entryErrors # {}
                      THEN EntryError(db, list, CHOOSE k \in entryErrors :
                                                  \A m \in entryErrors : k <= m)
                      ELSE IF dayErrors # {} THEN "DailyHoursExceeded" ELSE "ok"]

\* calculate_week_totals(list): the Aggregator
CalculateWeekTotals(list) ==
  [total_hours |-> SumSeqHours(list), total_entries |-> Len(list)]

---------------------------------------------------------------------------
(* Requests *)

\* an idle worker takes the next request; the lowest idle worker takes it.  A
\* request answered directly changes nothing but the recorded answer, so what can
\* follow it is what can follow the state before it: a run is followed up to the
\* first such answer.
CanStart(r) ==
  /\ pc[r] = "idle"
  /\ ~last.direct
  /\ served < MaxRequests
  /\ \A v \in Workers : v < r => pc[v] # "idle"

\* no request is between two of its steps
Quiet == \A v \in Workers : pc[v] = "idle"

\* the request is answered in its first step and leaves nothing but the response;
\* the response is observed when no other request is in progress
Reject(r, q, response) ==
  /\ last' = IF Quiet THEN [Answer(q, response) EXCEPT !.direct = TRUE] ELSE last
  /\ UNCHANGED <<pc, req, served>>

\* the request goes on to a later step, holding what it read
Goto(r, label, locals) ==
  /\ pc' = [pc EXCEPT ![r] = label]
  /\ req' = [req EXCEPT ![r] = locals]
  /\ served' = IF pc[r] = "idle" THEN served + 1 ELSE served
  /\ last' = NoResponse

Finish(r, response) ==
  /\ pc' = [pc EXCEPT ![r] = "idle"]
  /\ req' = [req EXCEPT ![r] = NoReq]
  /\ last' = Answer(req[r], response)
  /\ UNCHANGED served

\* what each endpoint keeps of its request
CreateRequest(u, data) == [NoReq EXCEPT !.kind = "create", !.user = u, !.data = data]

PutRequest(u, i, data) ==
  [NoReq EXCEPT !.kind = "put", !.user = u, !.id = i, !.data = data]

DeleteRequest(u, i) == [NoReq EXCEPT !.kind = "delete", !.user = u, !.id = i]

WeekRequest(u, week, ids, force) ==
  [NoReq EXCEPT !.kind = "submit_week", !.user = u, !.week = week, !.ids = ids,
                !.force = force]

BulkRequest(u, ids, action) ==
  [NoReq EXCEPT !.kind = IF action = "submit" THEN "bulk_submit"
                          ELSE IF action = "delete" THEN "bulk_delete"
                          ELSE "bulk_validate",
                !.user = u, !.ids = ids, !.action = action]

\* the table assigns ids from a sequence; a request holds one when it inserts
InFlightCreates == Cardinality({q \in Workers : pc[q] = "create_insert"})

---------------------------------------------------------------------------
(* POST /timesheets/ : timesheet_list_create, TimesheetCreateSerializer *)

\* variant for C7: the body's status is honoured when it names one
CreateStatusFromBody(data) == IF data.status = Keep THEN "draft" ELSE data.status

\* data['status'] = 'draft' in the view and again in the serializer
CreateStatus(data) == "draft"

\* variant for C27: validate() tests the employee before the project
CreateSerializerEmployeeFirst(u, data) ==
  IF ~HoursFieldOK(data.hours_worked) THEN "HoursOutOfRange"
  ELSE IF ~IsStaff(u) /\ (~HasEmployee(u) \/ u # data.employee) THEN "Forbidden"
  ELSE IF ~employees[data.employee] THEN "InactiveEmployee"
  ELSE IF projects[data.project] # "active" THEN "InactiveProject"
  ELSE "ok"

\* is_valid(): the field errors first, then validate()
CreateSerializerError(u, data) ==
  IF ~HoursFieldOK(data.hours_worked) THEN "HoursOutOfRange"
  ELSE IF ~IsStaff(u) /\ (~HasEmployee(u) \/ u # data.employee) THEN "Forbidden"
  ELSE IF projects[data.project] # "active" THEN "InactiveProject"
  ELSE IF ~employees[data.employee] THEN "InactiveEmployee"
  ELSE "ok"

NewInstance(data) ==
  Instance(0,
           Entry(data.employee, data.project, data.activity_type, data.date,
                 data.hours_worked, data.description, CreateStatus(data), 0),
           employees[data.employee], projects[data.project])

CreateValidate(r, u, data) ==
  /\ CanStart(r)
  /\ nextId + InFlightCreates <= MaxId
  /\ UNCHANGED <<store, nextId, clock, employees, projects>>
  /\ LET inst == NewInstance(data)
         q == CreateRequest(u, data)
     IN
     IF CreateSerializerError(u, data) # "ok"
     THEN Reject(r, q, Response("create", CreateSerializerError(u, data),
                             0, Key4(inst), 0, 0))
     ELSE IF FullClean(store, inst) # "ok"
     THEN Reject(r, q, Response("create", FullClean(store, inst), 0, Key4(inst), 0, 0))
     ELSE Goto(r, "create_insert", [q EXCEPT !.snap = <<inst>>])

CreateInsert(r) ==
  /\ pc[r] = "create_insert"
  /\ LET w == WriteRow(store, [req[r].snap[1] EXCEPT !.id = nextId]) IN
     /\ store' = w.db
     /\ Finish(r, Response("create", IF w.ok THEN "Created" ELSE w.err,
                            IF w.ok THEN nextId ELSE 0, Key4(req[r].snap[1]), 0, 0))
  /\ nextId' = nextId + 1
  /\ UNCHANGED <<clock, employees, projects>>

---------------------------------------------------------------------------
(* PUT and DELETE /timesheets/<pk>/ : timesheet_detail, TimesheetSerializer *)

\* request.user may touch the entry: staff, or the user of the entry's employee
MayAccess(u, inst) == IsStaff(u) \/ inst.employee = u

\* variant for C6: the status check of PUT left out
CanEditAlways(inst) == TRUE

\* "Only allow editing of drafts"
CanEdit(inst) == inst.status = "draft"

\* "Only allow deletion of drafts"
CanDelete(inst) == inst.status # "submitted"

\* serializer.update(): the writable fields present in the body replace the
\* instance's, the related objects are fetched anew, and status is forced to draft
Updated(inst, data) ==
  LET e == IF data.employee = Keep THEN inst.employee ELSE data.employee
      p == IF data.project = Keep THEN inst.project ELSE data.project
  IN [inst EXCEPT
        !.employee = e,
        !.project = p,
        !.activity_type =
           IF data.activity_type = Keep THEN @ ELSE data.activity_type,
        !.date = IF data.date = KeepNum THEN @ ELSE data.date,
        !.hours_worked = IF data.hours_worked = KeepNum THEN @ ELSE data.hours_worked,
        !.description = IF data.description = Keep THEN @ ELSE data.description,
        !.status = "draft",
        !.emp_active = IF data.employee = Keep THEN @ ELSE employees[e],
        !.proj_status = IF data.project = Keep THEN @ ELSE projects[p]]

PutSerializerError(db, inst, data) ==
  IF data.hours_worked # KeepNum /\ ~HoursFieldOK(data.hours_worked)
  THEN "HoursOutOfRange"
  ELSE IF ~UniqueTogetherOK(db, Row(Updated(inst, data)), inst.id)
  THEN "DuplicateEntry"
  ELSE "ok"

PutError(db, inst, u, data) ==
  IF ~MayAccess(u, inst) THEN "Forbidden"
  ELSE IF ~CanEdit(inst) THEN "CannotEditSubmitted"
  ELSE IF data.status = "submitted" THEN "IndividualSubmissionNotAllowed"
  ELSE IF PutSerializerError(db, inst, data) # "ok"
  THEN PutSerializerError(db, inst, data)
  ELSE FullClean(db, Updated(inst, data))

PutLoad(r, u, i, data) ==
  /\ CanStart(r)
  /\ UNCHANGED <<store, nextId, clock, employees, projects>>
  /\ IF i \notin DOMAIN store
     THEN Reject(r, PutRequest(u, i, data), Response("put", "NotFound", i, <<>>, 0, 0))
     ELSE IF PutError(store, Load(store, i), u, data) # "ok"
     THEN Reject(r, PutRequest(u, i, data), Response("put", PutError(store, Load(store, i), u, data),
                             i, <<>>, 0, 0))
     ELSE Goto(r, "put_write",
               [PutRequest(u, i, data) EXCEPT
                  !.snap = <<Updated(Load(store, i), data)>>])

PutWrite(r) ==
  /\ pc[r] = "put_write"
  /\ LET w == WriteRow(store, req[r].snap[1]) IN
     /\ store' = w.db
     /\ Finish(r, Response("put", IF w.ok THEN "Updated" ELSE w.err,
                            req[r].id, <<>>, 0, 0))
  /\ UNCHANGED <<nextId, clock, employees, projects>>

DeleteLoad(r, u, i) ==
  /\ CanStart(r)
  /\ UNCHANGED <<store, nextId, clock, employees, projects>>
  /\ IF i \notin DOMAIN store
     THEN Reject(r, DeleteRequest(u, i), Response("delete", "NotFound", i, <<>>, 0, 0))
     ELSE IF ~MayAccess(u, Load(store, i))
     THEN Reject(r, DeleteRequest(u, i), Response("delete", "Forbidden", i, <<>>, 0, 0))
     ELSE IF ~CanDelete(Load(store, i))
     THEN Reject(r, DeleteRequest(u, i), Response("delete", "CannotDeleteSubmitted", i, <<>>, 0, 0))
     ELSE Goto(r, "delete_write", DeleteRequest(u, i))

\* timesheet.delete(): DELETE by primary key
DeleteWrite(r) ==
  /\ pc[r] = "delete_write"
  /\ store' = Remove(store, {req[r].id})
  /\ Finish(r, Response("delete", "Deleted", req[r].id, <<>>, 0, 0))
  /\ UNCHANGED <<nextId, clock, employees, projects>>

\* POST /timesheets/<pk>/submit/ : disabled
SubmitTimesheet(r, u, i) ==
  /\ CanStart(r)
  /\ Reject(r, [NoReq EXCEPT !.kind = "submit", !.user = u, !.id = i],
            Response("submit", "SubmissionDisabled", i, <<>>, 0, 0))
  /\ UNCHANGED <<store, nextId, clock, employees, projects>>

---------------------------------------------------------------------------
(* POST /timesheets/submit-week/ : submit_week_timesheets *)

\* variant for C13: validate_week_start_date() left out
WeekSerializerAnyDay(db, week, ids) ==
  IF ids # <<>> /\ SeqToSet(ids) \subseteq DOMAIN db THEN "SubmissionFailed"
  ELSE IF ids # <<>> THEN "InvalidRequest"
  ELSE "ok"

\* WeekSubmissionSerializer.  validate_timesheet_ids() filters on status__ne, a
\* lookup the ORM does not have: once every id exists it raises FieldError, which
\* is no ValidationError and leaves is_valid() for the view's outer except.
WeekSerializerError(db, week, ids) ==
  IF ids # <<>> /\ SeqToSet(ids) \subseteq DOMAIN db THEN "SubmissionFailed"
  ELSE IF week % 7 # Monday \/ ids # <<>> THEN "InvalidRequest"
  ELSE "ok"

\* variant for C10: every draft of the employee, whatever its week
CandidatesOfAnyWeek(db, emp, week, ids) ==
  {i \in DOMAIN db : db[i].employee = emp /\ db[i].status = "draft"}

\* "Get timesheets to submit": the named ids, or all drafts of the week
SubmitWeekCandidates(db, emp, week, ids) ==
  IF ids # <<>>
  THEN LET w == GetWeekStartEndDates(week) IN
       {i \in SeqToSet(ids) \cap DOMAIN db :
          /\ db[i].employee = emp
          /\ db[i].status = "draft"
          /\ db[i].date >= w[1]
          /\ db[i].date <= w[2]}
  ELSE GetWeekDrafts(db, emp, week)

\* variant for C2: the warnings check left out
SubmissionGateIgnoringWarnings(rep, force) ==
  IF ~rep.is_valid THEN "ValidationFailed" ELSE "ok"

\* "Check if submission should be blocked"
SubmissionGate(rep, force) ==
  IF ~rep.is_valid THEN "ValidationFailed"
  ELSE IF rep.has_warnings /\ ~force THEN "HasWarnings"
  ELSE "ok"

\* variant for C23: a timesheet submitted is not appended to the list that
\* the summary is computed from
RECURSIVE SubmitLoopForgetful(_, _, _)
SubmitLoopForgetful(db, list, now) ==
  IF list = <<>> THEN [db |-> db, failed |-> {}, submitted |-> <<>>]
  ELSE LET s == Save(db, Submit(Head(list), now))
           rest == SubmitLoopForgetful(s.db, Tail(list), now)
       IN [db |-> rest.db,
           failed |-> IF s.ok THEN rest.failed ELSE {Head(list).id} \cup rest.failed,
           submitted |-> rest.submitted]

\* the loop of the atomic block: each failure is caught and recorded, and the
\* loop goes on to the next timesheet
RECURSIVE SubmitLoop(_, _, _)
SubmitLoop(db, list, now) ==
  IF list = <<>> THEN [db |-> db, failed |-> {}, submitted |-> <<>>]
  ELSE LET s == Save(db, Submit(Head(list), now))
           rest == SubmitLoop(s.db, Tail(list), now)
       IN [db |-> rest.db,
           failed |-> IF s.ok THEN rest.failed ELSE {Head(list).id} \cup rest.failed,
           submitted |-> IF s.ok THEN <<Submit(Head(list), now)>> \o rest.submitted
                         ELSE rest.submitted]

\* variant for C1: the writes of a failed loop are kept
AtomicResultNoRollback(before, res) == res.db

\* transaction.atomic(): "If any submissions failed, rollback the transaction"
AtomicResult(before, res) == IF res.failed = {} THEN res.db ELSE before

\* variant for C12: the check for an empty candidate set left out
NothingToSubmitNever(S) == FALSE

\* "if not timesheets_to_submit.exists()"
NothingToSubmit(S) == S = {}

SubmitWeekRead(r, u, week, ids, force) ==
  /\ CanStart(r)
  /\ UNCHANGED <<store, nextId, clock, employees, projects>>
  /\ IF ~HasEmployee(u)
     THEN Reject(r, WeekRequest(u, week, ids, force), Response("submit_week", "NoEmployeeRecord", 0, <<>>, 0, 0))
     ELSE IF WeekSerializerError(store, week, ids) # "ok"
     THEN Reject(r, WeekRequest(u, week, ids, force), Response("submit_week", WeekSerializerError(store, week, ids),
                             0, <<>>, 0, 0))
     ELSE IF NothingToSubmit(SubmitWeekCandidates(store, u, week, ids))
     THEN Reject(r, WeekRequest(u, week, ids, force), Response("submit_week", "NoDraftsFound", 0, <<>>, 0, 0))
     ELSE Goto(r, "sw_validate",
               [WeekRequest(u, week, ids, force) EXCEPT
                  !.snap = Ordered(store, SubmitWeekCandidates(store, u, week, ids))])

SubmitWeekValidate(r) ==
  /\ pc[r] = "sw_validate"
  /\ UNCHANGED <<store, nextId, clock, employees, projects>>
  /\ LET rep == ValidateWeekTimesheets(store, req[r].snap)
         gate == SubmissionGate(rep, req[r].force)
     IN IF gate # "ok"
        THEN Finish(r, Response("submit_week",
                                IF gate = "ValidationFailed" THEN rep.first_error
                                ELSE gate, 0, <<>>, 0, 0))
        ELSE Goto(r, "sw_commit", req[r])

SubmitWeekCommit(r) ==
  /\ pc[r] = "sw_commit"
  /\ LET res == SubmitLoop(store, req[r].snap, clock) IN
     /\ store' = AtomicResult(store, res)
     /\ Finish(r, IF res.failed = {}
                  THEN Response("submit_week", "Submitted", 0, <<>>, Len(res.submitted),
                                CalculateWeekTotals(res.submitted).total_hours)
                  ELSE Response("submit_week", "TransactionFailed", 0, <<>>,
                                Cardinality(res.failed), 0))
  /\ clock' = clock + 1
  /\ UNCHANGED <<nextId, employees, projects>>

---------------------------------------------------------------------------
(* POST /timesheets/bulk-actions/ : bulk_timesheet_actions *)

\* BulkTimesheetActionSerializer.validate_timesheet_ids()
BulkSerializerError(db, ids) ==
  IF ids = <<>> THEN "InvalidRequest"
  ELSE IF Cardinality(SeqToSet(ids) \cap DOMAIN db) # Len(ids) THEN "InvalidRequest"
  ELSE "ok"

\* Timesheet.objects.filter(id__in=timesheet_ids, employee=employee)
BulkTimesheets(db, emp, ids) ==
  {i \in SeqToSet(ids) \cap DOMAIN db : db[i].employee = emp}

\* variant for C20: the status filter left out
BulkDraftsOfAnyStatus(db, emp, ids) == BulkTimesheets(db, emp, ids)

\* timesheets.filter(status='draft')
BulkDrafts(db, emp, ids) ==
  {i \in BulkTimesheets(db, emp, ids) : db[i].status = "draft"}

\* variant for C18: the count of owned entries is not compared with the list
BulkErrorUncounted(db, u, ids) ==
  IF ~HasEmployee(u) THEN "NoEmployeeRecord"
  ELSE IF BulkSerializerError(db, ids) # "ok" THEN BulkSerializerError(db, ids)
  ELSE "ok"

BulkError(db, u, ids) ==
  IF ~HasEmployee(u) THEN "NoEmployeeRecord"
  ELSE IF BulkSerializerError(db, ids) # "ok" THEN BulkSerializerError(db, ids)
  ELSE IF Cardinality(BulkTimesheets(db, u, ids)) # Len(ids) THEN "NotFoundOrNotOwned"
  ELSE "ok"

BulkKind(action) ==
  IF action = "submit" THEN "bulk_submit"
  ELSE IF action = "delete" THEN "bulk_delete"
  ELSE "bulk_validate"

\* variant for C19: a failed save is skipped and the loop goes on
RECURSIVE BulkSubmitLoopSkipping(_, _, _)
BulkSubmitLoopSkipping(db, list, now) ==
  IF list = <<>> THEN [db |-> db, failed |-> {}, submitted |-> <<>>]
  ELSE LET s == Save(db, Submit(Head(list), now))
           rest == BulkSubmitLoopSkipping(s.db, Tail(list), now)
       IN [db |-> rest.db, failed |-> {},
           submitted |-> IF s.ok THEN <<Submit(Head(list), now)>> \o rest.submitted
                         ELSE rest.submitted]

\* the loop of the atomic block: the first failure leaves the loop
RECURSIVE BulkSubmitLoop(_, _, _)
BulkSubmitLoop(db, list, now) ==
  IF list = <<>> THEN [db |-> db, failed |-> {}, submitted |-> <<>>]
  ELSE LET s == Save(db, Submit(Head(list), now)) IN
       IF ~s.ok THEN [db |-> db, failed |-> {Head(list).id}, submitted |-> <<>>]
       ELSE LET rest == BulkSubmitLoop(s.db, Tail(list), now) IN
            [db |-> rest.db, failed |-> rest.failed,
             submitted |-> <<Submit(Head(list), now)>> \o rest.submitted]

\* variant for C21: the validate branch saves the entries it found valid
BulkValidateSaving(db, list) ==
  IF ValidateWeekTimesheets(db, list).is_valid
  THEN AtomicResult(db, BulkSubmitLoop(db, list, 1))
  ELSE db

\* the validate branch: the report is computed and returned; the branch calls
\* no save() and no delete()
BulkValidateStore(db, list) == db

BulkRead(r, u, ids, action) ==
  /\ CanStart(r)
  /\ store' = IF BulkError(store, u, ids) = "ok" /\ action = "validate"
              THEN BulkValidateStore(store,
                     Ordered(store, BulkTimesheets(store, u, ids)))
              ELSE store
  /\ UNCHANGED <<nextId, clock, employees, projects>>
  /\ IF BulkError(store, u, ids) # "ok"
     THEN Reject(r, BulkRequest(u, ids, action), Response(BulkKind(action), BulkError(store, u, ids), 0, <<>>, 0, 0))
     ELSE IF action = "validate"
     THEN Reject(r, BulkRequest(u, ids, action), Response("bulk_validate",
            IF ValidateWeekTimesheets(store,
                 Ordered(store, BulkTimesheets(store, u, ids))).is_valid
            THEN "Valid" ELSE "Invalid", 0, <<>>, 0, 0))
     ELSE IF BulkDrafts(store, u, ids) = {}
     THEN Reject(r, BulkRequest(u, ids, action), Response(BulkKind(action), "NoDrafts", 0, <<>>, 0, 0))
     ELSE IF action = "submit"
     THEN Goto(r, "bulk_validate",
               [BulkRequest(u, ids, action) EXCEPT
                  !.snap = Ordered(store, BulkDrafts(store, u, ids))])
     ELSE Goto(r, "bulk_delete",
               BulkRequest(u, ids, action))

BulkValidate(r) ==
  /\ pc[r] = "bulk_validate"
  /\ UNCHANGED <<store, nextId, clock, employees, projects>>
  /\ LET rep == ValidateWeekTimesheets(store, req[r].snap) IN
     IF ~rep.is_valid
     THEN Finish(r, Response("bulk_submit", rep.first_error, 0, <<>>, 0, 0))
     ELSE Goto(r, "bulk_commit", req[r])

BulkCommit(r) ==
  /\ pc[r] = "bulk_commit"
  /\ LET res == BulkSubmitLoop(store, req[r].snap, clock) IN
     /\ store' = AtomicResult(store, res)
     /\ Finish(r, IF res.failed = {}
                  THEN Response("bulk_submit", "Submitted", 0, <<>>, Len(res.submitted), 0)
                  ELSE Response("bulk_submit", "BulkActionFailed", 0, <<>>, 0, 0))
  /\ clock' = clock + 1
  /\ UNCHANGED <<nextId, employees, projects>>

\* draft_timesheets.delete(): one DELETE with the queryset's filters
BulkDelete(r) ==
  /\ pc[r] = "bulk_delete"
  /\ store' = Remove(store, BulkDrafts(store, req[r].user, req[r].ids))
  /\ Finish(r, Response("bulk_delete", "Deleted", 0, <<>>,
                        Cardinality(BulkDrafts(store, req[r].user, req[r].ids)), 0))
  /\ UNCHANGED <<nextId, clock, employees, projects>>

---------------------------------------------------------------------------
(* PUT /employees/<pk>/ and PUT /projects/<pk>/ : the records entries refer to *)

ProjectStatuses == {"active", "completed"}

\* employee_detail, PUT {is_active: active}
EmployeeUpdate(r, e, active) ==
  /\ CanStart(r)
  /\ employees' = [employees EXCEPT ![e] = active]
  /\ served' = served + 1
  /\ last' = Answer([NoReq EXCEPT !.kind = "employee_update", !.user = Admin],
                    Response("employee_update", "Updated", 0, <<>>, 0, 0))
  /\ UNCHANGED <<store, nextId, clock, projects, pc, req>>

\* project_detail, PUT {status: status}
ProjectUpdate(r, p, status) ==
  /\ CanStart(r)
  /\ projects' = [projects EXCEPT ![p] = status]
  /\ served' = served + 1
  /\ last' = Answer([NoReq EXCEPT !.kind = "project_update", !.user = Admin],
                    Response("project_update", "Updated", 0, <<>>, 0, 0))
  /\ UNCHANGED <<store, nextId, clock, employees, pc, req>>

---------------------------------------------------------------------------
(* Inputs and initial states *)

\* bodies of POST /timesheets/
CreateInputs ==
  {Data("E1", "P1", "dev", 1, 1000, "text", Keep),
   Data("E1", "P1", "test", 1, 2000, "text", Keep),
   Data("E1", "P2", "dev", 2, 1000, "", Keep),
   Data("E2", "P1", "dev", 8, 1000, "text", "submitted")}

\* bodies of PUT /timesheets/<pk>/
PutInputs ==
  {[NoData EXCEPT !.hours_worked = 2000],
   [NoData EXCEPT !.employee = "E2"],
   [NoData EXCEPT !.date = 8],
   [NoData EXCEPT !.status = "submitted"]}

WeekStarts == {0, 7, 1}

\* id lists of a request: none, one id, two ids, one id twice
IdLists == {<<>>, <<1>>, <<2>>, <<MaxId>>, <<1, 2>>, <<1, 1>>}

\* hours at the lower end of the range: 0.01, 0.09, 0.10 and 0.11
SmallHours == {1, MinHoursLimit - 1, MinHoursLimit, MinHoursLimit + 1}

\* what is sent when requests are served one at a time: also bodies that the
\* field and model validators refuse (hours 0.00 and 24.01, a date after today,
\* an activity type the project does not list)
SeqCreateInputs ==
  CreateInputs \cup
    {Data("E1", "P1", "dev", 1, 0, "text", Keep),
     Data("E1", "P1", "dev", 1, MaxHoursLimit + 1, "text", Keep),
     Data("E1", "P1", "dev", Today + 1, 1000, "text", Keep),
     Data("E1", "P1", "meeting", 1, 1000, "text", Keep),
     Data("E1", "P2", "meeting", 1, 1000, "text", Keep)}
    \cup {Data("E1", "P1", "dev", 1, h, "text", Keep) : h \in SmallHours}

SeqPutInputs ==
  PutInputs \cup
    {[NoData EXCEPT !.hours_worked = 0],
     [NoData EXCEPT !.hours_worked = MaxHoursLimit + 1],
     [NoData EXCEPT !.date = Today + 1],
     [NoData EXCEPT !.activity_type = "meeting"]}

\* what is sent while requests overlap: the inputs that reach the writes
OverlapCreateInputs == {d \in CreateInputs : d.date \in {1, 8} /\ d.activity_type = "dev"}

OverlapPutInputs == {d \in PutInputs : d.date # KeepNum \/ d.status # Keep}

OverlapIdLists == {<<1>>, <<2>>, <<1, 2>>}

OverlapWeekStarts == {w \in WeekStarts : w % 7 = Monday}

\* drafts the table may hold when the first request arrives: each was accepted by
\* POST /timesheets/ from its owner
SeedEntries ==
  {Entry(d.employee, d.project, d.activity_type, d.date, d.hours_worked,
         d.description, "draft", 0) : d \in CreateInputs}

SeedStores ==
  UNION {{f \in [1..n -> SeedEntries] :
            \A i, j \in 1..n : i # j => Key4(f[i]) # Key4(f[j])} : n \in 0..MaxSeed}

Init ==
  /\ store \in SeedStores
  /\ nextId = Cardinality(DOMAIN store) + 1
  /\ clock = 1
  /\ employees = [e \in Employees |-> TRUE]
  /\ projects = [p \in Projects |-> "active"]
  /\ pc = [r \in Workers |-> "idle"]
  /\ req = [r \in Workers |-> NoReq]
  /\ served = 0
  /\ last = NoResponse

Next ==
  \E r \in Workers :
    \/ \E u \in Employees, data \in OverlapCreateInputs : CreateValidate(r, u, data)
    \/ CreateInsert(r)
    \/ \E u \in Employees, i \in Ids, data \in OverlapPutInputs : PutLoad(r, u, i, data)
    \/ PutWrite(r)
    \/ \E u \in Employees, i \in Ids : DeleteLoad(r, u, i)
    \/ DeleteWrite(r)
    \/ \E u \in Employees, i \in Ids : SubmitTimesheet(r, u, i)
    \/ \E u \in Employees, week \in OverlapWeekStarts, ids \in {<<>>, <<1>>}, force \in BOOLEAN :
         SubmitWeekRead(r, u, week, ids, force)
    \/ SubmitWeekValidate(r)
    \/ SubmitWeekCommit(r)
    \/ \E u \in Employees, ids \in OverlapIdLists, action \in {"submit", "delete", "validate"} :
         BulkRead(r, u, ids, action)
    \/ BulkValidate(r)
    \/ BulkCommit(r)
    \/ BulkDelete(r)

Spec == Init /\ [][Next]_vars

\* requests served one at a time: a request starts only when none is in progress
SeqStart == Quiet /\ served < MaxSeqRequests

NextSeq ==
  \E r \in Workers :
    \/ \E u \in Users, data \in SeqCreateInputs : SeqStart /\ CreateValidate(r, u, data)
    \/ CreateInsert(r)
    \/ \E u \in Users, i \in Ids, data \in SeqPutInputs : SeqStart /\ PutLoad(r, u, i, data)
    \/ PutWrite(r)
    \/ \E u \in Users, i \in Ids : SeqStart /\ DeleteLoad(r, u, i)
    \/ DeleteWrite(r)
    \/ \E u \in Users, i \in Ids : SeqStart /\ SubmitTimesheet(r, u, i)
    \/ \E u \in Users, week \in WeekStarts, ids \in {<<>>, <<1>>}, force \in BOOLEAN :
         SeqStart /\ SubmitWeekRead(r, u, week, ids, force)
    \/ SubmitWeekValidate(r)
    \/ SubmitWeekCommit(r)
    \/ \E u \in Users, ids \in IdLists, action \in {"submit", "delete", "validate"} :
         SeqStart /\ BulkRead(r, u, ids, action)
    \/ BulkValidate(r)
    \/ BulkCommit(r)
    \/ BulkDelete(r)
    \/ \E e \in Employees, active \in BOOLEAN : SeqStart /\ EmployeeUpdate(r, e, active)
    \/ \E p \in Projects, status \in ProjectStatuses :
         SeqStart /\ ProjectUpdate(r, p, status)

SpecSeq == Init /\ [][NextSeq]_vars

\* creates and edits that break several entry rules at once, sent when some
\* employees were deactivated and some projects left the active status after the
\* stored Drafts were created
RuleCreateInputs ==
  {Data("E1", "P1", a, d, h, "text", Keep) :
     a \in {"dev", "meeting"}, d \in {1, Today + 1}, h \in {1000, 0}}

RulePutInputs ==
  {[NoData EXCEPT !.activity_type = a, !.date = d, !.hours_worked = h] :
     a \in {Keep, "dev", "meeting"}, d \in {KeepNum, Today + 1}, h \in {KeepNum, 0}}

InitRules ==
  /\ store \in SeedStores
  /\ nextId = Cardinality(DOMAIN store) + 1
  /\ clock = 1
  /\ employees \in [Employees -> BOOLEAN]
  /\ projects \in [Projects -> ProjectStatuses]
  /\ pc = [r \in Workers |-> "idle"]
  /\ req = [r \in Workers |-> NoReq]
  /\ served = 0
  /\ last = NoResponse

NextRules ==
  \E r \in Workers :
    \/ \E u \in Users, data \in RuleCreateInputs : SeqStart /\ CreateValidate(r, u, data)
    \/ CreateInsert(r)
    \/ \E u \in Users, i \in Ids, data \in RulePutInputs : SeqStart /\ PutLoad(r, u, i, data)
    \/ PutWrite(r)

SpecRules == InitRules /\ [][NextRules]_vars

---------------------------------------------------------------------------
(* HTTP status of each answer *)

HttpStatus(a) ==
  IF a.code \in {"Updated", "Submitted", "Valid", "Invalid", "none"} THEN 200
  ELSE IF a.code = "Created" THEN 201
  ELSE IF a.code = "Deleted" THEN (IF a.kind = "bulk_delete" THEN 200 ELSE 204)
  ELSE IF a.code = "Forbidden" THEN 403
  ELSE IF a.code \in {"NotFound", "NoDraftsFound", "NotFoundOrNotOwned"} THEN 404
  ELSE IF a.code = "SubmissionDisabled" THEN 405
  ELSE 400

---------------------------------------------------------------------------
(* Properties *)

Submitted(db, i) == i \in DOMAIN db /\ db[i].status = "submitted"

Draft(db, i) == i \in DOMAIN db /\ db[i].status = "draft"

\* the step creates, deletes or alters entry i
Changed(i) ==
  \/ (i \in DOMAIN store) # (i \in DOMAIN store')
  \/ i \in DOMAIN store /\ i \in DOMAIN store' /\ store[i] # store'[i]

\* the step makes entry i Submitted
BecomesSubmitted(i) == Submitted(store', i) /\ ~Submitted(store, i)

\* C1: SubmitWeek transitions every entry of its candidate set or none of them:
\* after the step that runs the atomic block either every candidate is Submitted
\* and the answer is the summary, or the table is exactly as it was before the
\* step and the answer is TransactionFailed.
C1_SubmitWeekAllOrNothing ==
  [][\A r \in Workers :
       (pc[r] = "sw_commit" /\ pc'[r] = "idle") =>
          \/ /\ last'.code = "Submitted"
             /\ \A i \in SnapIds(req[r].snap) : Submitted(store', i)
          \/ /\ last'.code = "TransactionFailed"
             /\ store' = store]_vars

\* a SubmitWeek whose atomic block failed on some entry has been answered
C1_Witness ==
  /\ last.kind = "submit_week"
  /\ last.code = "TransactionFailed"
  /\ last.count >= 1

\* C2: the step of SubmitWeek that evaluates the report changes no entry, and the
\* request goes on to the atomic block exactly when the report is valid and
\* either has no warnings or forceSubmit was given; otherwise it is answered
\* with an error there.
C2_BlockedSubmitChangesNothing ==
  [][\A r \in Workers :
       (pc[r] = "sw_validate" /\ pc'[r] # "sw_validate") =>
          LET rep == ValidateWeekTimesheets(store, req[r].snap)
              pass == rep.is_valid /\ (~rep.has_warnings \/ req[r].force)
          IN /\ store' = store
             /\ pass => pc'[r] = "sw_commit"
             /\ ~pass => /\ pc'[r] = "idle"
                         /\ last'.kind = "submit_week"
                         /\ last'.code # "Submitted"]_vars

\* a SubmitWeek without forceSubmit was refused for its warnings, and drafts remain
C2_Witness ==
  /\ last.kind = "submit_week"
  /\ last.code = "HasWarnings"
  /\ \E i \in DOMAIN store : store[i].status = "draft" /\ store[i].description = ""

\* C3: for every employee and every date the hours of the Submitted entries sum
\* to at most 24, whatever the interleaving of the requests.
C3_SubmittedDailyCap ==
  \A e \in Employees : \A i \in DOMAIN store :
     SumHours(store, {j \in DOMAIN store :
                        /\ store[j].employee = e
                        /\ store[j].date = store[i].date
                        /\ store[j].status = "submitted"}) <= DayHoursCap

\* C4: an entry that is Submitted is never Draft again, whatever the interleaving
\* of PUT with SubmitWeek.
C4_SubmittedStaysSubmitted ==
  [][\A i \in DOMAIN store :
       (Submitted(store, i) /\ i \in DOMAIN store') => Submitted(store', i)]_vars

\* C5: an entry that is Submitted is never removed from the table, whatever the
\* interleaving of DELETE and bulk delete with SubmitWeek.
C5_SubmittedNeverDeleted ==
  [][\A i \in DOMAIN store : Submitted(store, i) => i \in DOMAIN store']_vars

\* C6: with requests served one at a time, a PUT or DELETE addressed to an entry
\* that is Submitted is answered with an error and leaves the table as it was.
C6_SubmittedRejectsPutDelete ==
  [][(last'.kind \in {"put", "delete"} /\ last' # last /\ Submitted(store, last'.id)) =>
        /\ last'.code \notin {"Updated", "Deleted"}
        /\ store' = store]_vars

\* the owner's PUT or DELETE of a Submitted entry has been refused for its status
C6_Witness ==
  /\ last.kind \in {"put", "delete"}
  /\ last.code \in {"CannotEditSubmitted", "CannotDeleteSubmitted"}
  /\ Submitted(store, last.id)

\* C7: an entry becomes Submitted only in the step that runs the atomic block of
\* SubmitWeek or of bulk submit; no create, update or single-entry submit step
\* makes an entry Submitted.
C7_OnlyBatchSubmits ==
  [][\A i \in Ids :
       BecomesSubmitted(i) =>
          \E r \in Workers : pc[r] \in {"sw_commit", "bulk_commit"} /\ pc'[r] = "idle"]_vars

\* a create whose body asked for status submitted has stored a Draft
C7_Witness ==
  /\ last.kind = "create"
  /\ last.code = "Created"
  /\ \E d \in CreateInputs : d.status = "submitted" /\ Key4(d) = last.key
  /\ Draft(store, last.id)

\* C8: no two entries share employee, project, date, activity type and status:
\* a key has at most one Draft and at most one Submitted entry.
C8_UniquePerKeyAndStatus ==
  \A i, j \in DOMAIN store : i # j => Key5(store[i]) # Key5(store[j])

\* the table has refused a write that would have stored a second such entry
C8_Witness ==
  /\ last.code = "IntegrityError"
  /\ \E i \in DOMAIN store : Key4(store[i]) = last.key

\* C9: a create is not refused as a duplicate when the table holds a Submitted
\* entry with the body's key and no Draft with that key.
C9_DraftBesideSubmitted ==
  ~ /\ last.kind = "create"
    /\ last.code \in {"DuplicateEntry", "IntegrityError"}
    /\ \E i \in DOMAIN store : Key4(store[i]) = last.key /\ store[i].status = "submitted"
    /\ ~ \E i \in DOMAIN store : Key4(store[i]) = last.key /\ store[i].status = "draft"

\* the step is one of SubmitWeek request r
SubmitWeekStep(r) ==
  \/ pc[r] \in {"sw_validate", "sw_commit"} /\ pc'[r] # pc[r]
  \/ pc[r] = "idle" /\ pc'[r] = "sw_validate"
  \/ Quiet /\ last'.kind = "submit_week" /\ last' # last

\* C10: a step of SubmitWeek changes an entry only in its atomic block, and only
\* an entry of the caller that was Draft and dated within the week when the
\* request read the table (and named in timesheetIds when those were given).
C10_SubmitWeekFrame ==
  [][\A r \in Workers : SubmitWeekStep(r) =>
       \A i \in Ids : Changed(i) =>
          /\ pc[r] = "sw_commit"
          /\ \E k \in DOMAIN req[r].snap :
               LET t == req[r].snap[k]
                   w == GetWeekStartEndDates(req[r].week)
               IN /\ t.id = i
                  /\ t.employee = req[r].user
                  /\ t.status = "draft"
                  /\ t.date >= w[1] /\ t.date <= w[2]
                  /\ req[r].ids # <<>> => i \in SeqToSet(req[r].ids)]_vars

\* a SubmitWeek has succeeded and a Draft of the same employee, dated in another
\* week, is still Draft
C10_Witness ==
  /\ last.kind = "submit_week"
  /\ last.code = "Submitted"
  /\ \E i, j \in DOMAIN store :
       /\ store[i].status = "submitted"
       /\ store[j].status = "draft"
       /\ store[j].employee = store[i].employee
       /\ GetWeekStartEndDates(store[j].date) # GetWeekStartEndDates(store[i].date)

\* the request that last was answered is a SubmitWeek
WeekAnswered == last.kind = "submit_week"

\* C11: a SubmitWeek that names ids, on a Monday, some of which are Drafts of the
\* caller inside the week that pass the week validation without warnings, is
\* answered with the summary of a successful submission.  (A refused request
\* leaves the table as it was, so the candidates are those of the table it read.)
C11_ExplicitIdsSubmitted ==
  LET cands == {i \in SeqToSet(last.ids) \cap DOMAIN store :
                  /\ store[i].employee = last.user
                  /\ store[i].status = "draft"
                  /\ store[i].date >= last.week
                  /\ store[i].date <= last.week + WeekLastDay}
      rep == ValidateWeekTimesheets(store, Ordered(store, cands))
  IN (/\ WeekAnswered
      /\ last.ids # <<>>
      /\ last.week % 7 = Monday
      /\ cands # {}
      /\ rep.is_valid /\ ~rep.has_warnings) => last.code = "Submitted"

\* the answered SubmitWeek was well formed and found no Draft of the caller in
\* the week, in table db
EmptyWeek(db, a) ==
  /\ a.kind = "submit_week"
  /\ HasEmployee(a.user)
  /\ a.ids = <<>>
  /\ a.week % 7 = Monday
  /\ GetWeekDrafts(db, a.user, a.week) = {}

\* C12 as claimed: a SubmitWeek that finds no Draft in the week, such as the
\* second of two for the same week, is answered with a no-op result and not with
\* an error.
C12_SecondSubmitNotAnError == EmptyWeek(store, last) => HttpStatus(last) < 400

\* C12 as amended: a SubmitWeek that finds no Draft in the week is answered with
\* the error NoDraftsFound (404) and changes no entry.
C12_SecondSubmitRefused ==
  [][(last' # last /\ EmptyWeek(store, last')) =>
        /\ last'.code = "NoDraftsFound"
        /\ HttpStatus(last') = 404
        /\ store' = store]_vars

\* the second SubmitWeek for a week already submitted has been refused
C12_Witness ==
  /\ EmptyWeek(store, last)
  /\ last.code = "NoDraftsFound"
  /\ \E i \in DOMAIN store :
       /\ store[i].employee = last.user
       /\ store[i].status = "submitted"
       /\ GetWeekStartEndDates(store[i].date)[1] = last.week

C14_StampOfItsTransition ==
  [][\A i \in DOMAIN store' :
        /\ (store'[i].status = "submitted") <=> (store'[i].submitted_at # 0)
        /\ BecomesSubmitted(i) => store'[i].submitted_at = clock
        /\ (Submitted(store, i) /\ Submitted(store', i)) =>
              store'[i].submitted_at = store[i].submitted_at]_vars

\* hours sent in a create or an edit that are at most 0 or more than 24
HoursOutside(a) ==
  /\ a.kind \in {"create", "put"}
  /\ a.data.hours_worked # KeepNum
  /\ (a.data.hours_worked <= 0 \/ a.data.hours_worked > MaxHoursLimit)

\* C15: a create or an edit whose hours are at most 0 or more than 24 is
\* rejected and stores nothing, and every stored entry, Draft or Submitted, has
\* hours above 0 and at most 24.
C15_HoursInRange ==
  [][/\ \A i \in DOMAIN store :
          store[i].hours_worked > 0 /\ store[i].hours_worked <= MaxHoursLimit
     /\ \A i \in DOMAIN store' :
          store'[i].hours_worked > 0 /\ store'[i].hours_worked <= MaxHoursLimit
     /\ (last' # last /\ HoursOutside(last')) =>
          /\ HttpStatus(last') >= 400
          /\ store' = store]_vars

\* an edit of an existing Draft to more than 24 hours has been refused
C15_Witness ==
  /\ last.kind = "put"
  /\ last.data.hours_worked > MaxHoursLimit
  /\ last.code = "HoursOutOfRange"
  /\ Draft(store, last.id)

\* the employee of entry e is inactive or its project is not active
Deactivated(e) == ~employees[e.employee] \/ projects[e.project] # "active"

\* the candidate set of the batch submission answered by a, in the table the
\* step started from
Batch(a) ==
  IF a.kind = "submit_week"
  THEN SubmitWeekCandidates(store, a.user, a.week, a.ids)
  ELSE IF a.kind = "bulk_submit" THEN BulkDrafts(store, a.user, a.ids)
  ELSE {}

\* C16: no step creates an entry or makes one Submitted while the entry's
\* employee is inactive or its project is not active, and a SubmitWeek or bulk
\* submit whose candidate set holds such an entry is refused and changes nothing.
C16_InactiveBlocksCreateAndSubmit ==
  [][/\ \A i \in DOMAIN store' :
          (i \notin DOMAIN store \/ BecomesSubmitted(i)) => ~Deactivated(store'[i])
     /\ (last' # last /\ \E i \in Batch(last') : Deactivated(store[i])) =>
          /\ HttpStatus(last') >= 400
          /\ store' = store]_vars

\* a SubmitWeek was refused because one project of the week had left the active
\* status after the Drafts were created, another Draft of the week being in order
C16_Witness ==
  /\ WeekAnswered
  /\ last.code = "InactiveProject"
  /\ \E i, j \in GetWeekDrafts(store, last.user, last.week) :
       Deactivated(store[i]) /\ ~Deactivated(store[j])

\* C17: a Draft is validated with rules 1 to 4 only; the FutureDate rule applies
\* only when the target status is Submitted, so no create and no edit, which
\* both store a Draft, is refused for a date after today.
C17_DraftsSkipFutureDate ==
  last.kind \in {"create", "put"} => last.code # "FutureDate"

BulkAnswered(a) == a.kind \in {"bulk_submit", "bulk_delete", "bulk_validate"}

\* C18: a BulkAction naming an id that is no entry of the caller is refused and
\* changes nothing, and a BulkAction changes or deletes only entries of the
\* caller.
C18_BulkOwnEntriesOnly ==
  [][(last' # last /\ BulkAnswered(last')) =>
        /\ (\E i \in SeqToSet(last'.ids) :
              i \notin DOMAIN store \/ store[i].employee # last'.user) =>
             (HttpStatus(last') >= 400 /\ store' = store)
        /\ \A i \in 1..MaxId :
             Changed(i) => (i \in DOMAIN store /\ store[i].employee = last'.user)]_vars

\* a BulkAction naming a Draft of the caller and an entry of another employee
\* has been refused
C18_Witness ==
  /\ BulkAnswered(last)
  /\ last.code = "NotFoundOrNotOwned"
  /\ \E i, j \in SeqToSet(last.ids) \cap DOMAIN store :
       /\ store[i].employee = last.user
       /\ store[i].status = "draft"
       /\ store[j].employee # last.user

\* C19: bulk submit goes on to its atomic block only when the week validator
\* reports the named Drafts valid, no entry changing while it decides; and the
\* step that runs the atomic block either leaves every named Draft Submitted and
\* answers with the count, or leaves the table exactly as it was and answers
\* BulkActionFailed, also when a save fails after others of the batch succeeded.
C19_BulkSubmitGateAndAtomic ==
  [][\A r \in Workers :
        /\ (pc[r] = "bulk_validate" /\ pc'[r] # pc[r]) =>
              /\ store' = store
              /\ (pc'[r] = "bulk_commit") <=>
                    ValidateWeekTimesheets(store, req[r].snap).is_valid
        /\ (pc'[r] = "bulk_commit" /\ pc[r] # pc'[r]) => pc[r] = "bulk_validate"
        /\ (pc[r] = "bulk_commit" /\ pc'[r] # pc[r]) =>
              \/ /\ last'.code = "Submitted"
                 /\ last'.count = Len(req[r].snap)
                 /\ \A k \in DOMAIN req[r].snap : Submitted(store', req[r].snap[k].id)
              \/ /\ last'.code = "BulkActionFailed"
                 /\ store' = store]_vars

\* a bulk submit of two Drafts failed on the second save, the first Draft being
\* one that saves as Submitted on its own, and both are still Draft
C19_Witness ==
  /\ last.kind = "bulk_submit"
  /\ last.code = "BulkActionFailed"
  /\ Len(last.ids) = 2
  /\ \A i \in SeqToSet(last.ids) : Draft(store, i)
  /\ LET i == First(store, SeqToSet(last.ids)) IN
       Save(store, Submit(Load(store, i), clock)).ok

\* the bulk delete answered by a named only entries of the caller, in the table
\* the step started from, and at least one of them was Submitted
MixedDelete(a) ==
  /\ a.kind = "bulk_delete"
  /\ Len(a.ids) = Cardinality(SeqToSet(a.ids))
  /\ \A i \in SeqToSet(a.ids) : i \in DOMAIN store /\ store[i].employee = a.user
  /\ \E i \in SeqToSet(a.ids) : Submitted(store, i)
  /\ \E i \in SeqToSet(a.ids) : Draft(store, i)

\* C20 as claimed: a bulk delete over Draft and Submitted entries is refused
\* with an error and deletes nothing.
C20_MixedDeleteRefused ==
  [][(last' # last /\ MixedDelete(last')) =>
        (HttpStatus(last') >= 400 /\ store' = store)]_vars

\* C20 as amended: a bulk delete over Draft and Submitted entries deletes exactly
\* the Drafts of the set, leaves the Submitted ones as they are and answers with
\* the number of Drafts deleted.
C20_MixedDeleteRemovesDrafts ==
  [][(last' # last /\ MixedDelete(last')) =>
        /\ last'.code = "Deleted"
        /\ HttpStatus(last') = 200
        /\ last'.count = Cardinality({i \in SeqToSet(last'.ids) : Draft(store, i)})
        /\ DOMAIN store' =
             DOMAIN store \ {i \in SeqToSet(last'.ids) : Draft(store, i)}
        /\ \A i \in DOMAIN store' : store'[i] = store[i]]_vars

\* a bulk delete has removed a Draft and kept a Submitted entry of its list
C20_Witness ==
  /\ last.kind = "bulk_delete"
  /\ last.code = "Deleted"
  /\ \E i \in SeqToSet(last.ids) : Submitted(store, i)
  /\ \E j \in SeqToSet(last.ids) : j \notin DOMAIN store

\* C21: bulk validate changes nothing: whatever ids it names, Draft or
\* Submitted, valid or not, the table after the request equals the table before.
C21_BulkValidateFrame ==
  [][(last' # last /\ last'.kind = "bulk_validate") => store' = store]_vars

\* a bulk validate over a Draft and a Submitted entry of the caller was answered
\* with its report
C21_Witness ==
  /\ last.kind = "bulk_validate"
  /\ last.code \in {"Valid", "Invalid"}
  /\ \E i, j \in SeqToSet(last.ids) : Draft(store, i) /\ Submitted(store, j)

\* C23: a SubmitWeek that succeeds answers with submitted_count equal to the
\* number of entries in its candidate set, every one of which is Submitted after
\* the step, and with total_hours equal to the sum of the hours of exactly those
\* entries as the table now holds them.
C23_SummaryOfSubmitted ==
  [][\A r \in Workers :
        (pc[r] = "sw_commit" /\ pc'[r] = "idle" /\ last'.code = "Submitted") =>
           /\ last'.count = Cardinality(SnapIds(req[r].snap))
           /\ \A i \in SnapIds(req[r].snap) : Submitted(store', i)
           /\ last'.hours = SumHours(store', SnapIds(req[r].snap))]_vars

\* a SubmitWeek has answered with a count of two entries of different hours and
\* their total
C23_Witness ==
  /\ WeekAnswered
  /\ last.code = "Submitted"
  /\ last.count = 2
  /\ \E i, j \in DOMAIN store :
       /\ i # j
       /\ Submitted(store, i) /\ Submitted(store, j)
       /\ store[i].hours_worked # store[j].hours_worked
       /\ last.hours = store[i].hours_worked + store[j].hours_worked

\* the project and activity type the entry would have after the create or the
\* edit answered by a, in the table the step started from
Target(a) ==
  IF a.kind = "put" /\ a.id \in DOMAIN store
  THEN [project |-> IF a.data.project = Keep THEN store[a.id].project
                    ELSE a.data.project,
        activity_type |-> IF a.data.activity_type = Keep
                          THEN store[a.id].activity_type
                          ELSE a.data.activity_type]
  ELSE [project |-> a.data.project, activity_type |-> a.data.activity_type]

ActivityAllowed(t) ==
  ActivityTypes(t.project) = {} \/ t.activity_type \in ActivityTypes(t.project)

\* C24: a create or an edit that would leave an entry with an activity type
\* outside its project's non-empty list is refused and stores nothing; one whose
\* project lists nothing, or lists the activity type, is never refused for its
\* activity type; and every stored entry satisfies the rule.
C24_ActivityTypeRule ==
  [][/\ \A i \in DOMAIN store' : ActivityAllowed(store'[i])
     /\ (/\ last' # last
         /\ \/ last'.kind = "create"
            \/ last'.kind = "put" /\ last'.id \in DOMAIN store) =>
          IF ActivityAllowed(Target(last'))
          THEN last'.code # "InvalidActivityType"
          ELSE HttpStatus(last') >= 400 /\ store' = store]_vars

\* an edit of a Draft to an activity type its project does not list was refused
C24_Witness ==
  /\ last.kind = "put"
  /\ last.code = "InvalidActivityType"
  /\ Draft(store, last.id)
  /\ ActivityTypes(store[last.id].project) # {}
  /\ last.data.activity_type \notin ActivityTypes(store[last.id].project)

\* candidate k of request r is no longer in the table as the row that was read
\* and validated
Stale(r, k) ==
  \/ req[r].snap[k].id \notin DOMAIN store
  \/ store[req[r].snap[k].id] # Row(req[r].snap[k])

\* C25: the atomic block of SubmitWeek transitions entries only if every
\* candidate is still in the table as the Draft that was validated: when another
\* request has deleted or edited a candidate since, the block changes nothing, so
\* a deleted entry is not stored again and an edit is not overwritten.
C25_CommitOnlyIfUnchanged ==
  [][\A r \in Workers :
        (/\ pc[r] = "sw_commit"
         /\ pc'[r] = "idle"
         /\ \E k \in DOMAIN req[r].snap : Stale(r, k)) => store' = store]_vars

\* the step is the atomic block of a SubmitWeek request
SubmitWeekCommits == \E r \in Workers : pc[r] = "sw_commit" /\ pc'[r] = "idle"

\* C26: when two SubmitWeek requests of one employee for one week overlap, every
\* candidate is transitioned at most once: the atomic block of the later one
\* neither stamps an entry that is already Submitted again nor reports it as
\* submitted, and the table holds each entry once, as Submitted.
C26_SubmittedAtMostOnce ==
  [][SubmitWeekCommits =>
        \A i \in DOMAIN store :
           Submitted(store, i) =>
              /\ Submitted(store', i)
              /\ store'[i].submitted_at = store[i].submitted_at
              /\ last'.code = "Submitted" =>
                   \A r \in Workers :
                      pc[r] = "sw_commit" /\ pc'[r] = "idle" =>
                         i \notin SnapIds(req[r].snap)]_vars

\* the instance the create or the edit answered by a would store
RuleTarget(a) ==
  IF a.kind = "put" THEN Updated(Load(store, a.id), a.data) ELSE NewInstance(a.data)

\* a is the answer to a create or an edit that was refused in its first step and
\* that the caller was allowed to send: the table is as the request found it
RuleAnswer(a) ==
  /\ a.direct
  /\ \/ /\ a.kind = "create"
        /\ IsStaff(a.user) \/ a.user = a.data.employee
     \/ /\ a.kind = "put"
        /\ a.id \in DOMAIN store
        /\ MayAccess(a.user, Load(store, a.id))
        /\ store[a.id].status = "draft"
        /\ a.data.status # "submitted"

\* the entry rules the instance breaks
Broken(a) ==
  LET inst == RuleTarget(a)
      own == IF a.kind = "put" THEN {a.id} ELSE {}
  IN  {x \in {"InactiveEmployee"} : ~inst.emp_active}
      \cup {x \in {"InactiveProject"} : inst.proj_status # "active"}
      \cup {x \in {"HoursOutOfRange"} :
              inst.hours_worked <= MinHoursLimit \/ inst.hours_worked > MaxHoursLimit}
      \cup {x \in {"InvalidActivityType"} :
              /\ ActivityTypes(inst.project) # {}
              /\ inst.activity_type \notin ActivityTypes(inst.project)}
      \cup {x \in {"FutureDate"} : inst.date > Today}
      \cup {x \in {"DuplicateEntry"} :
              \E j \in (DOMAIN store) \ own : Key4(store[j]) = Key4(inst)}

FirstOf(order, S) ==
  order[CHOOSE k \in DOMAIN order :
          order[k] \in S /\ \A m \in 1..(k - 1) : order[m] \notin S]

ClaimedOrder ==
  <<"InactiveEmployee", "InactiveProject", "HoursOutOfRange",
    "InvalidActivityType", "FutureDate", "DuplicateEntry">>

CreateOrder ==
  <<"HoursOutOfRange", "InactiveProject", "InactiveEmployee",
    "FutureDate", "InvalidActivityType", "DuplicateEntry">>

EditOrder ==
  <<"HoursOutOfRange", "DuplicateEntry", "FutureDate",
    "InvalidActivityType", "InactiveEmployee", "InactiveProject">>

\* C27 as claimed: a create or an edit that breaks more than one entry rule is
\* refused with the first rule it breaks in the order inactive employee,
\* non-active project, hours, activity type, future date, duplicate.
C27_ClaimedRuleOrder ==
  (RuleAnswer(last) /\ Cardinality(Broken(last)) >= 2) =>
     last.code = FirstOf(ClaimedOrder, Broken(last))

\* C27 as amended: a create that breaks more than one entry rule is refused
\* with the first it breaks in the order hours, non-active project, inactive
\* employee, future date, activity type, duplicate; an edit, in the order hours,
\* duplicate, future date, activity type, inactive employee, non-active project.
C27_CodeRuleOrder ==
  (RuleAnswer(last) /\ Cardinality(Broken(last)) >= 2) =>
     last.code = FirstOf(IF last.kind = "create" THEN CreateOrder ELSE EditOrder,
                         Broken(last))

\* a create for an inactive employee on a project that is not active was
\* refused for the project
C27_Witness ==
  /\ RuleAnswer(last)
  /\ last.kind = "create"
  /\ Broken(last) = {"InactiveEmployee", "InactiveProject"}
  /\ last.code = "InactiveProject"

\* C28: a create or an edit sent by a user who is not staff leaves every entry
\* with the employee it had, and gives a new entry the employee of the user who
\* sent it.
C28_OwnerIsCreator ==
  [][(last' # last /\ last'.kind \in {"create", "put"} /\ ~IsStaff(last'.user)) =>
        /\ \A i \in (DOMAIN store') \ (DOMAIN store) :
              store'[i].employee = last'.user
        /\ \A i \in (DOMAIN store') \cap (DOMAIN store) :
              store'[i].employee = store[i].employee]_vars

C30_RepeatedIdsNotRefused ==
  (/\ BulkAnswered(last)
   /\ HasEmployee(last.user)
   /\ last.ids # <<>>
   /\ \A i \in SeqToSet(last.ids) :
        i \in DOMAIN store /\ store[i].employee = last.user) =>
     last.code \notin {"InvalidRequest", "NotFoundOrNotOwned"}

====
